---- MODULE Spec2Model ----
(***************************************************************************)
(* Model of the r1cs-tutorial circuits:                                    *)
(*   - merkle-tree-example: NonMembershipSetDiff::generate_constraints     *)
(*   - rollup: Rollup::with_state_and_transactions (the witness builder)   *)
(*             and Rollup::generate_constraints (the batch circuit).       *)
(*                                                                         *)
(* Hashes are ideal: the leaf hash and the two-to-one compressor are       *)
(* injective term constructors, so a digest determines its preimage.       *)
(* A constraint system is the sequence of the outcomes of the constraints  *)
(* enforced so far; it is satisfied when every outcome is TRUE.            *)
(***************************************************************************)
EXTENDS Integers, Sequences, FiniteSets, TLC

\* ------------------------------------------------------------------ bounds

\* Height of the account tree (State::new(32, ..) has height 5).
TreeHeight == 1

\* Largest value of an Amount (u64::MAX in the ledger).
MaxAmount == 2

\* Rollup::<2>: the batch size of the circuit under test.
NUM_TX == 2

\* ------------------------------------------------------- hashes and paths

Pow2(n) == 2 ^ n

\* Leaf hash H_L: bytes -> digest.
LeafCRH(bytes) == <<bytes>>

\* Two-to-one compressor H_2: (digest, digest) -> digest.
TwoToOneCRH(left, right) == <<left, right>>

\* Digest of the subtree of `height` whose first leaf is leaves[first].
RECURSIVE SubtreeDigest(_, _, _)
SubtreeDigest(leafBytes, first, height) ==
    IF height = 0
    THEN LeafCRH(leafBytes[first])
    ELSE TwoToOneCRH(SubtreeDigest(leafBytes, first, height - 1),
                     SubtreeDigest(leafBytes, first + Pow2(height - 1), height - 1))

\* MerkleTree::root of a tree whose i-th leaf is leafBytes[i + 1].
TreeRoot(leafBytes) == SubtreeDigest(leafBytes, 1, TreeHeight)

\* Bit k (LSB first) of a leaf index.
IndexBit(index, k) == (index \div Pow2(k)) % 2

\* MerkleTree::generate_proof(index): the sibling digest at every level.
GenerateProof(leafBytes, index) ==
    [leaf_index |-> index,
     auth_path  |-> [k \in 1..TreeHeight |->
                       LET level == k - 1
                           block == index \div Pow2(level)
                           sib   == IF block % 2 = 0 THEN block + 1 ELSE block - 1
                       IN  SubtreeDigest(leafBytes, sib * Pow2(level) + 1, level)]]

\* Recompute the root from a leaf along a path, level by level.
RECURSIVE FoldPath(_, _, _)
FoldPath(path, digest, level) ==
    IF level = TreeHeight
    THEN digest
    ELSE FoldPath(path,
                  IF IndexBit(path.leaf_index, level) = 0
                  THEN TwoToOneCRH(digest, path.auth_path[level + 1])
                  ELSE TwoToOneCRH(path.auth_path[level + 1], digest),
                  level + 1)

\* PathVar::verify_membership / Path::verify: TRUE iff the recomputation
\* from the leaf yields the root.
VerifyMembership(path, root, bytes) == FoldPath(path, LeafCRH(bytes), 0) = root

\* --------------------------------------------------------- native ledger

\* Ids of the registered accounts, and one id that was never registered.
AccountIds == {0, 1}
UnknownId == Cardinality(AccountIds)
TxIds == AccountIds \cup {UnknownId}

\* sample_keys_and_register: the key pair installed for an id.
PublicKeyOf(id) == id + 1
SecretKeys == {PublicKeyOf(id) : id \in AccountIds}

Amounts == 0..MaxAmount

\* The blank leaf of a slot no account occupies.
BlankInfo == [public_key |-> 0, balance |-> 0]

\* AccountInformation::to_bytes_le: the key bytes, then the balance bytes.
ToBytesLe(info) == <<info.public_key, info.balance>>

Capacity == Pow2(TreeHeight)

\* The ledger State with the given balances: the id map and the tree agree.
MkState(bal) ==
    [id_to_account_info |->
        [id \in AccountIds |-> [public_key |-> PublicKeyOf(id), balance |-> bal[id]]],
     account_merkle_tree |->
        [j \in 1..Capacity |->
            IF (j - 1) \in AccountIds
            THEN [public_key |-> PublicKeyOf(j - 1), balance |-> bal[j - 1]]
            ELSE BlankInfo]]

LeafBytesOf(st) == [j \in 1..Capacity |-> ToBytesLe(st.account_merkle_tree[j])]

\* State::root.
StateRoot(st) == TreeRoot(LeafBytesOf(st))

\* account_merkle_tree.generate_proof(id).
StateProof(st, id) == GenerateProof(LeafBytesOf(st), id)

\* State::update_balance: writes the map entry and rehashes the leaf.
UpdateBalance(st, id, newBal) ==
    [id_to_account_info |->
        [st.id_to_account_info EXCEPT ![id].balance = newBal],
     account_merkle_tree |->
        [st.account_merkle_tree EXCEPT ![id + 1].balance = newBal]]

\* The signed message: sender, recipient, amount.
Message(sender, recipient, amount) == <<sender, recipient, amount>>

\* Transaction::create: sign the message with the given secret key.
CreateTx(sender, recipient, amount, sk) ==
    [sender |-> sender, recipient |-> recipient, amount |-> amount,
     signature |-> [key |-> sk, msg |-> Message(sender, recipient, amount)]]

\* Signature verification, native and in-circuit: the signature was made
\* with the secret key of pk over exactly this transaction's message.
VerifySignature(tx, pk) ==
    /\ tx.signature.key = pk
    /\ tx.signature.msg = Message(tx.sender, tx.recipient, tx.amount)

\* Transaction::validate against a State.
TxValidate(tx, st) ==
    IF tx.sender \in DOMAIN st.id_to_account_info
    THEN LET info == st.id_to_account_info[tx.sender]
         IN  /\ VerifyMembership(StateProof(st, tx.sender), StateRoot(st), ToBytesLe(info))
             /\ VerifySignature(tx, info.public_key)
             /\ tx.amount <= info.balance
             /\ tx.recipient \in DOMAIN st.id_to_account_info
    ELSE FALSE

\* State::apply_transaction: both old balances are read, both new balances
\* are computed with checked arithmetic, then the sender and the recipient
\* are written in that order. A rejected transaction leaves the state as is.
ApplyTransaction(st, tx) ==
    IF ~TxValidate(tx, st)
    THEN [ok |-> FALSE, state |-> st]
    ELSE LET oldS == st.id_to_account_info[tx.sender].balance
             oldR == st.id_to_account_info[tx.recipient].balance
         IN  IF oldS < tx.amount \/ oldR + tx.amount > MaxAmount
             THEN [ok |-> FALSE, state |-> st]
             ELSE [ok |-> TRUE,
                   state |-> UpdateBalance(UpdateBalance(st, tx.sender, oldS - tx.amount),
                                           tx.recipient, oldR + tx.amount)]

\* ------------------------------------------------- rollup witness builder

\* The Rollup struct with no witness vectors filled in.
EmptyRollup(initial_root, final_root) ==
    [initial_root |-> initial_root,
     final_root |-> final_root,
     transactions |-> <<>>,
     sender_pre_tx_info_and_paths |-> <<>>,
     sender_post_paths |-> <<>>,
     recv_pre_tx_info_and_paths |-> <<>>,
     recv_post_paths |-> <<>>,
     pre_tx_roots |-> <<>>,
     post_tx_roots |-> <<>>]

\* The pre-check loop: with validation on, a transaction that the native
\* validator rejects against the state as passed in rejects the batch.
PreCheckRejects(txs, st, validate_transactions) ==
    \E k \in 1..Len(txs) : ~TxValidate(txs[k], st) /\ validate_transactions

\* Faulty variant: the result of the apply is dropped in both branches.
ApplyStepDropsResult(st, tx, validate_transactions) ==
    [abort |-> FALSE, state |-> ApplyTransaction(st, tx).state]

\* Faulty variant: a failing apply aborts the batch in both branches.
ApplyStepPropagates(st, tx, validate_transactions) ==
    LET applied == ApplyTransaction(st, tx)
    IN  [abort |-> ~applied.ok, state |-> applied.state]

\* The apply branch of the replay loop: with validation a failing apply
\* aborts the batch, without it the result of the apply is dropped.
ApplyStep(st, tx, validate_transactions) ==
    LET applied == ApplyTransaction(st, tx)
    IN  [abort |-> validate_transactions /\ ~applied.ok, state |-> applied.state]

\* Faulty variant: the post-transaction root is read before the apply.
PushStepStalePost(r, tx, pre, post) ==
    [r EXCEPT
       !.transactions = Append(@, tx),
       !.sender_pre_tx_info_and_paths =
           Append(@, <<pre.id_to_account_info[tx.sender], StateProof(pre, tx.sender)>>),
       !.recv_pre_tx_info_and_paths =
           Append(@, <<pre.id_to_account_info[tx.recipient], StateProof(pre, tx.recipient)>>),
       !.sender_post_paths = Append(@, StateProof(post, tx.sender)),
       !.recv_post_paths = Append(@, StateProof(post, tx.recipient)),
       !.pre_tx_roots = Append(@, StateRoot(pre)),
       !.post_tx_roots = Append(@, StateRoot(pre))]

\* One iteration of the replay loop pushed onto the witness vectors.
PushStep(r, tx, pre, post) ==
    [r EXCEPT
       !.transactions = Append(@, tx),
       !.sender_pre_tx_info_and_paths =
           Append(@, <<pre.id_to_account_info[tx.sender], StateProof(pre, tx.sender)>>),
       !.recv_pre_tx_info_and_paths =
           Append(@, <<pre.id_to_account_info[tx.recipient], StateProof(pre, tx.recipient)>>),
       !.sender_post_paths = Append(@, StateProof(post, tx.sender)),
       !.recv_post_paths = Append(@, StateProof(post, tx.recipient)),
       !.pre_tx_roots = Append(@, StateRoot(pre)),
       !.post_tx_roots = Append(@, StateRoot(post))]

\* The replay loop from transaction k on. An unknown sender or recipient,
\* or an aborting apply, returns None with the state as mutated so far.
RECURSIVE Replay(_, _, _, _, _)
Replay(txs, st, validate_transactions, k, r) ==
    IF k > Len(txs)
    THEN [some |-> TRUE, rollup |-> [r EXCEPT !.final_root = StateRoot(st)], state |-> st]
    ELSE LET tx == txs[k]
         IN  IF tx.sender \notin DOMAIN st.id_to_account_info
                \/ tx.recipient \notin DOMAIN st.id_to_account_info
             THEN [some |-> FALSE, rollup |-> r, state |-> st]
             ELSE LET step == ApplyStep(st, tx, validate_transactions)
                  IN  IF step.abort
                      THEN [some |-> FALSE, rollup |-> r, state |-> step.state]
                      ELSE Replay(txs, step.state, validate_transactions, k + 1,
                                  PushStep(r, tx, st, step.state))

\* Rollup::with_state_and_transactions: the Option returned and the State
\* the caller's replica is left in.
WithStateAndTransactions(txs, st, validate_transactions) ==
    IF PreCheckRejects(txs, st, validate_transactions)
    THEN [some |-> FALSE, rollup |-> EmptyRollup(StateRoot(st), StateRoot(st)), state |-> st]
    ELSE Replay(txs, st, validate_transactions, 1,
                EmptyRollup(StateRoot(st), StateRoot(st)))

\* ---------------------------------------------------------- rollup circuit

\* AmountVar::checked_sub / checked_add: the result must fit the bit width.
CheckedSubFits(a, b) == a - b >= 0
CheckedAddFits(a, b) == a + b <= MaxAmount

\* The witnesses of iteration i of the circuit's loop, read from the struct.
StepOf(r, i) ==
    [tx |-> r.transactions[i],
     sender_acc_info |-> r.sender_pre_tx_info_and_paths[i][1],
     sender_pre_path |-> r.sender_pre_tx_info_and_paths[i][2],
     sender_post_path |-> r.sender_post_paths[i],
     recipient_acc_info |-> r.recv_pre_tx_info_and_paths[i][1],
     recipient_pre_path |-> r.recv_pre_tx_info_and_paths[i][2],
     recipient_post_path |-> r.recv_post_paths[i],
     pre_tx_root |-> r.pre_tx_roots[i],
     post_tx_root |-> r.post_tx_roots[i]]

\* TransactionVar::validate, relations T1-T6: the signature under the
\* sender's pre-state key, both pre-infos under pre_root, both post-infos
\* (balance - amount, balance + amount, keys unchanged) under post_root,
\* with both balance updates range-checked.
ValidateTx(w) ==
    LET post_sender == [w.sender_acc_info EXCEPT !.balance = @ - w.tx.amount]
        post_recipient == [w.recipient_acc_info EXCEPT !.balance = @ + w.tx.amount]
    IN  /\ VerifySignature(w.tx, w.sender_acc_info.public_key)
        /\ CheckedSubFits(w.sender_acc_info.balance, w.tx.amount)
        /\ CheckedAddFits(w.recipient_acc_info.balance, w.tx.amount)
        /\ VerifyMembership(w.sender_pre_path, w.pre_tx_root, ToBytesLe(w.sender_acc_info))
        /\ VerifyMembership(w.sender_post_path, w.post_tx_root, ToBytesLe(post_sender))
        /\ VerifyMembership(w.recipient_pre_path, w.pre_tx_root, ToBytesLe(w.recipient_acc_info))
        /\ VerifyMembership(w.recipient_post_path, w.post_tx_root, ToBytesLe(post_recipient))

\* Faulty variant: the chain constraint is not enforced.
LoopBodyNoChain(prev_root, w) == << TRUE, ValidateTx(w) >>

\* The constraints one loop iteration enforces: the chain constraint
\* prev_root = pre_tx_root, then validate(..) = TRUE.
LoopBody(prev_root, w) == << prev_root = w.pre_tx_root, ValidateTx(w) >>

\* Faulty variant: the final root is not compared.
FinalConstraintDropped(prev_root, final_root) == << TRUE >>

\* The constraint enforced after the loop: prev_root = final_root.
FinalConstraint(prev_root, final_root) == << prev_root = final_root >>

\* ConstraintSystem::is_satisfied.
IsSatisfied(constraints) == \A k \in 1..Len(constraints) : constraints[k]

\* generate_constraints for a batch of n transactions whose witnesses are
\* all present: the constraints of iterations i..n and the final one.
RECURSIVE SynthesizeFrom(_, _, _, _)
SynthesizeFrom(r, n, i, prev_root) ==
    IF i > n
    THEN FinalConstraint(prev_root, r.final_root)
    ELSE LoopBody(prev_root, StepOf(r, i))
           \o SynthesizeFrom(r, n, i + 1, r.post_tx_roots[i])

Synthesize(r, n) == SynthesizeFrom(r, n, 1, r.initial_root)

\* ------------------------------------------------------------------ state

VARIABLES
    pc,                     \* where the run is
    state,                  \* the caller's ledger State
    temp_state,             \* the replica handed to the witness builder
    transactions,           \* the batch
    validate_transactions,  \* the builder's flag
    rollup,                 \* the Rollup struct
    cs,                     \* the constraint system: outcomes enforced so far
    prev_root,              \* the circuit's running root
    iter,                   \* the circuit's loop counter
    circuit,                \* the NonMembershipSetDiff struct
    validate_tx,            \* the Booleans tx.validate(..) returned, in order
    single_cs,              \* the constraint systems of the Rollup<1> instances
    mode,                   \* whether the constraint system assigns values
    result,                 \* what generate_constraints returned
    fee_args                \* the arguments of a validate_with_fee call

vars == <<pc, state, temp_state, transactions, validate_transactions, rollup, cs,
          prev_root, iter, circuit, validate_tx, single_cs, mode, result, fee_args>>

NoDigest == <<>>

\* Placeholder of a run that has no NonMembershipSetDiff circuit.
NoCircuit == <<>>

\* Placeholder of a run that makes no validate_with_fee call.
NoFeeArgs == <<>>

\* Transactions a client can create: any ids, any amount, any held key.
Txs == {CreateTx(s, r, a, k) : s \in TxIds, r \in TxIds, a \in Amounts, k \in SecretKeys}

Batches == [1..NUM_TX -> Txs]

States == {MkState(bal) : bal \in [AccountIds -> Amounts]}

\* ------------------------------------- the builder followed by the circuit

\* fee_as_second_tx_validity_test up to the call of the builder: a State
\* with registered accounts and balances, a batch, a clone of the State.
Init ==
    /\ pc = "start"
    /\ state \in States
    /\ temp_state = state
    /\ transactions \in Batches
    /\ validate_transactions \in BOOLEAN
    /\ rollup = EmptyRollup(NoDigest, NoDigest)
    /\ cs = <<>>
    /\ prev_root = NoDigest
    /\ iter = 0
    /\ circuit = NoCircuit
    /\ validate_tx = <<>>
    /\ single_cs = <<>>
    /\ mode = "Prove"
    /\ result = "Pending"
    /\ fee_args = NoFeeArgs

\* Rollup::<NUM_TX>::with_state_and_transactions(pp, &txs, &mut temp_state, flag).
Build ==
    /\ pc = "start"
    /\ LET res == WithStateAndTransactions(transactions, temp_state, validate_transactions)
       IN  /\ temp_state' = res.state
           /\ rollup' = res.rollup
           /\ pc' = IF res.some THEN "built" ELSE "rejected"
    /\ UNCHANGED <<state, transactions, validate_transactions, cs, prev_root, iter, circuit, mode, result, fee_args,
                   validate_tx, single_cs>>

\* rollup.generate_constraints(cs) on the witness the builder returned.
GenerateConstraints ==
    /\ pc = "built"
    /\ cs' = Synthesize(rollup, NUM_TX)
    /\ prev_root' = rollup.post_tx_roots[NUM_TX]
    /\ iter' = NUM_TX
    /\ validate_tx' = [i \in 1..NUM_TX |-> ValidateTx(StepOf(rollup, i))]
    /\ pc' = "synthesized"
    /\ UNCHANGED <<state, temp_state, transactions, validate_transactions, rollup, circuit, mode, result, fee_args,
                   single_cs>>

Next == Build \/ GenerateConstraints

Spec == Init /\ [][Next]_vars

\* ------------------------------------------------ claims about the builder

Returned == pc \in {"built", "synthesized"}

\* The chain the builder owes the circuit, read off a Rollup struct.
RootChain(r) ==
    /\ r.pre_tx_roots[1] = r.initial_root
    /\ \A i \in 1..(NUM_TX - 1) : r.pre_tx_roots[i + 1] = r.post_tx_roots[i]
    /\ r.post_tx_roots[NUM_TX] = r.final_root

\* C4: every witness the builder returns, with or without validation, has
\* pre_tx_roots[0] = initial_root, pre_tx_roots[i+1] = post_tx_roots[i] and
\* post_tx_roots[N-1] = final_root, where initial_root is the root of the
\* state before the call and final_root the root of the state after it.
C4_RootChain ==
    Returned =>
        /\ Len(rollup.pre_tx_roots) = NUM_TX
        /\ Len(rollup.post_tx_roots) = NUM_TX
        /\ RootChain(rollup)
        /\ rollup.initial_root = StateRoot(state)
        /\ rollup.final_root = StateRoot(temp_state)

\* A returned witness in which both transactions moved the root.
C4_Witness ==
    /\ pc = "built"
    /\ rollup.pre_tx_roots[1] # rollup.post_tx_roots[1]
    /\ rollup.pre_tx_roots[2] # rollup.post_tx_roots[2]
    /\ rollup.initial_root # rollup.final_root

\* C5 as claimed: a witness returned under validation satisfies the circuit.
C5_ValidatedBuildSatisfies ==
    (pc = "synthesized" /\ validate_transactions) => IsSatisfied(cs)

\* The state each transaction of the batch is natively applied to, in order.
RECURSIVE StateBefore(_, _, _)
StateBefore(txs, st, k) ==
    IF k = 1 THEN st
    ELSE ApplyTransaction(StateBefore(txs, st, k - 1), txs[k - 1]).state

\* Transaction k overdraws its sender at the moment it is applied.
OverdrawsAt(txs, st, k) ==
    LET before == StateBefore(txs, st, k)
    IN  /\ txs[k].sender \in DOMAIN before.id_to_account_info
        /\ txs[k].amount > before.id_to_account_info[txs[k].sender].balance

Overdraws(txs, st) == \E k \in 1..Len(txs) : OverdrawsAt(txs, st, k)

\* C6: under validation a batch with a transaction that overdraws its sender
\* when applied in array order yields no witness, and no circuit is built.
C6_OverdraftRejected ==
    (pc # "start" /\ validate_transactions /\ Overdraws(transactions, state))
        => (pc = "rejected" /\ cs = <<>>)

\* A rejected batch whose overdraft only shows after the first transaction:
\* every transaction passes the pre-check against the state as passed in.
C6_Witness ==
    /\ pc = "rejected"
    /\ validate_transactions
    /\ ~PreCheckRejects(transactions, state, TRUE)
    /\ OverdrawsAt(transactions, state, 2)

AllIdsRegistered(txs, st) ==
    \A k \in 1..Len(txs) :
        /\ txs[k].sender \in DOMAIN st.id_to_account_info
        /\ txs[k].recipient \in DOMAIN st.id_to_account_info

\* What C7 says of a run without validation whose batch overdraws.
OverdraftUnvalidated ==
    /\ Returned
    /\ \A k \in 1..NUM_TX :
          OverdrawsAt(transactions, state, k) =>
              /\ rollup.pre_tx_roots[k] = rollup.post_tx_roots[k]
              /\ ~CheckedSubFits(StepOf(rollup, k).sender_acc_info.balance,
                                 StepOf(rollup, k).tx.amount)
    /\ pc = "synthesized" => ~IsSatisfied(cs)

\* C7 as claimed: without validation an overdrawing batch still returns a
\* witness, the overdrawing step leaves the root unchanged, and the circuit
\* built from the witness is unsatisfied by the sender-side underflow.
C7_Original ==
    (pc # "start" /\ ~validate_transactions /\ Overdraws(transactions, state))
        => OverdraftUnvalidated

\* C7 amended: the same, for batches whose sender and recipient ids are all
\* registered.
C7_OverdraftUnvalidated ==
    (pc # "start" /\ ~validate_transactions /\ Overdraws(transactions, state)
       /\ AllIdsRegistered(transactions, state))
        => OverdraftUnvalidated

\* An unvalidated run whose second transaction overdraws after a first one
\* that was applied, with the circuit synthesized.
C7_Witness ==
    /\ pc = "synthesized"
    /\ ~validate_transactions
    /\ ~OverdrawsAt(transactions, state, 1)
    /\ OverdrawsAt(transactions, state, 2)
    /\ rollup.pre_tx_roots[1] # rollup.post_tx_roots[1]

RECURSIVE SumAmounts(_, _, _, _)
SumAmounts(txs, id, sending, k) ==
    IF k = 0 THEN 0
    ELSE SumAmounts(txs, id, sending, k - 1)
         + (IF (IF sending THEN txs[k].sender ELSE txs[k].recipient) = id
            THEN txs[k].amount ELSE 0)

BalanceOf(st, id) == st.id_to_account_info[id].balance

\* C9 as claimed: whenever the builder returns a witness, every account of
\* the replica ends at its balance before the call minus what it sent plus
\* what it received in the batch.
C9_BalancesAfterBuild ==
    Returned =>
        \A id \in AccountIds :
            BalanceOf(temp_state, id) =
                BalanceOf(state, id)
                - SumAmounts(transactions, id, TRUE, NUM_TX)
                + SumAmounts(transactions, id, FALSE, NUM_TX)

\* ------------------------------------------- non-membership by difference

\* Leaf values of the example trees (the tests' old and new value at index 4).
Bytes == {9, 11}

\* A one-byte leaf as the byte slice handed to the leaf hash.
ByteLeaf(b) == <<b>>

\* The trees of the example: every assignment of a byte to every leaf.
ByteTrees == [1..Capacity -> {ByteLeaf(b) : b \in Bytes}]

ByteRoots == {TreeRoot(t) : t \in ByteTrees}

\* Digests of the subtrees of a given height.
ByteDigests(height) ==
    {SubtreeDigest(t, 1, height) : t \in [1..Pow2(height) -> {ByteLeaf(b) : b \in Bytes}]}

\* Every authentication path the prover can present: any index, and at
\* every level any digest of that level.
RECURSIVE BytePathsUpTo(_)
BytePathsUpTo(height) ==
    IF height = 0 THEN {<<>>}
    ELSE {Append(p, d) : p \in BytePathsUpTo(height - 1), d \in ByteDigests(height - 1)}

BytePaths ==
    {[leaf_index |-> j, auth_path |-> p] : j \in 0..(Capacity - 1), p \in BytePathsUpTo(TreeHeight)}

\* Faulty variant: the inequality of the two leaves is not enforced.
NonMembershipNoInequality(c) ==
    << VerifyMembership(c.path_new, c.new_root, ByteLeaf(c.leaf_new)),
       VerifyMembership(c.path_old_same_index, c.old_root, ByteLeaf(c.leaf_old_at_index)) >>

\* NonMembershipSetDiff::generate_constraints with both paths present: the
\* three enforced constraints, in the order the code enforces them.
NonMembershipConstraints(c) ==
    LET ok_new == VerifyMembership(c.path_new, c.new_root, ByteLeaf(c.leaf_new))
        ok_old == VerifyMembership(c.path_old_same_index, c.old_root,
                                   ByteLeaf(c.leaf_old_at_index))
        same   == c.leaf_new = c.leaf_old_at_index
    IN  << ok_new = TRUE, ok_old = TRUE, same = FALSE >>

\* Any public inputs and any witness over the example's universe.
InitNM ==
    /\ pc = "nm_start"
    /\ circuit \in [old_root : ByteRoots, new_root : ByteRoots, leaf_new : Bytes,
                    leaf_old_at_index : Bytes, path_new : BytePaths,
                    path_old_same_index : BytePaths]
    /\ state = MkState([id \in AccountIds |-> 0])
    /\ temp_state = state
    /\ transactions = <<>>
    /\ validate_transactions = FALSE
    /\ rollup = EmptyRollup(NoDigest, NoDigest)
    /\ cs = <<>>
    /\ prev_root = NoDigest
    /\ iter = 0
    /\ validate_tx = <<>>
    /\ single_cs = <<>>
    /\ mode = "Prove"
    /\ result = "Pending"
    /\ fee_args = NoFeeArgs

\* circuit.generate_constraints(cs).
GenerateConstraintsNM ==
    /\ pc = "nm_start"
    /\ cs' = NonMembershipConstraints(circuit)
    /\ pc' = "nm_synthesized"
    /\ UNCHANGED <<state, temp_state, transactions, validate_transactions, rollup,
                   prev_root, iter, circuit, mode, result, fee_args, validate_tx, single_cs>>

NextNM == GenerateConstraintsNM

SpecNM == InitNM /\ [][NextNM]_vars

\* The tree a root commits to (the hashes are injective, so there is one).
ByteTreeOf == [root \in ByteRoots |-> CHOOSE t \in ByteTrees : TreeRoot(t) = root]

\* Leaf v sits at index i of the tree committed to by root.
LeafAt(root, i, v) == ByteTreeOf[root][i + 1] = ByteLeaf(v)

\* The path is the proof, at its own index, of leaf v in the tree committed
\* to by root.
Authenticates(path, root, v) ==
    /\ LeafAt(root, path.leaf_index, v)
    /\ GenerateProof(ByteTreeOf[root], path.leaf_index) = path

\* C2 as claimed: a satisfied system has one index i and a value other than
\* leaf_new such that leaf_new is at index i under new_root and that value
\* is at the same index i under old_root.
C2_NonMembershipSound ==
    (pc = "nm_synthesized" /\ IsSatisfied(cs)) =>
        \E i \in 0..(Capacity - 1) : \E v \in Bytes :
            /\ v # circuit.leaf_new
            /\ LeafAt(circuit.new_root, i, circuit.leaf_new)
            /\ LeafAt(circuit.old_root, i, v)

\* C8: the system is satisfied exactly when path_new authenticates leaf_new
\* against new_root, path_old_same_index authenticates leaf_old_at_index
\* against old_root, and the two leaves differ; in particular equal leaves
\* are unsatisfied even when both membership checks pass.
C8_NonMembershipPredicate ==
    pc = "nm_synthesized" =>
        /\ IsSatisfied(cs) <=>
              /\ Authenticates(circuit.path_new, circuit.new_root, circuit.leaf_new)
              /\ Authenticates(circuit.path_old_same_index, circuit.old_root,
                               circuit.leaf_old_at_index)
              /\ circuit.leaf_new # circuit.leaf_old_at_index
        /\ circuit.leaf_old_at_index = circuit.leaf_new => ~IsSatisfied(cs)

\* The honest witness of the test: both paths generated at one index, the
\* old tree holding another value there; the system is satisfied.
C8_Witness ==
    /\ pc = "nm_synthesized"
    /\ IsSatisfied(cs)
    /\ circuit.path_new.leaf_index = circuit.path_old_same_index.leaf_index
    /\ circuit.leaf_new = 11
    /\ circuit.leaf_old_at_index = 9

\* --------------------------------- the rollup circuit on spliced witnesses

\* Transactions between registered accounts.
RegisteredTxs ==
    {CreateTx(s, r, a, k) : s \in AccountIds, r \in AccountIds, a \in Amounts, k \in SecretKeys}

RECURSIVE SumBalances(_, _)
SumBalances(st, ids) ==
    IF ids = {} THEN 0
    ELSE LET id == CHOOSE x \in ids : TRUE
         IN  st.id_to_account_info[id].balance + SumBalances(st, ids \ {id})

TotalSupply(st) == SumBalances(st, DOMAIN st.id_to_account_info)

\* Ledgers whose total supply is the largest Amount, or one less.
LedgerStates ==
    {st \in States : TotalSupply(st) \in {MaxAmount - 1, MaxAmount}}

\* What the builder without validation records for tx replayed on st.
BuilderStep(st, tx) ==
    StepOf(PushStep(EmptyRollup(NoDigest, NoDigest), tx, st, ApplyStep(st, tx, FALSE).state), 1)

\* The Rollup<1> instance of one step: its transaction, infos and paths,
\* with public inputs (pre_tx_root, post_tx_root).
SingleRollup(w) ==
    [initial_root |-> w.pre_tx_root,
     final_root |-> w.post_tx_root,
     transactions |-> <<w.tx>>,
     sender_pre_tx_info_and_paths |-> << <<w.sender_acc_info, w.sender_pre_path>> >>,
     sender_post_paths |-> <<w.sender_post_path>>,
     recv_pre_tx_info_and_paths |-> << <<w.recipient_acc_info, w.recipient_pre_path>> >>,
     recv_post_paths |-> <<w.recipient_post_path>>,
     pre_tx_roots |-> <<w.pre_tx_root>>,
     post_tx_roots |-> <<w.post_tx_root>>]

\* A Rollup whose public inputs are any two ledger roots; the prover fills
\* in the witnesses of each iteration when the loop reaches it.
InitChain ==
    /\ pc = "inputs"
    /\ \E r0 \in LedgerStates, r1 \in LedgerStates :
          rollup = EmptyRollup(StateRoot(r0), StateRoot(r1))
    /\ state = MkState([id \in AccountIds |-> 0])
    /\ temp_state = state
    /\ transactions = <<>>
    /\ validate_transactions = FALSE
    /\ cs = <<>>
    /\ prev_root = NoDigest
    /\ iter = 0
    /\ circuit = NoCircuit
    /\ validate_tx = <<>>
    /\ single_cs = <<>>
    /\ mode = "Prove"
    /\ result = "Pending"
    /\ fee_args = NoFeeArgs

\* generate_constraints up to the loop: the public inputs are allocated and
\* prev_root starts at initial_root.
AllocateInputs ==
    /\ pc = "inputs"
    /\ prev_root' = rollup.initial_root
    /\ iter' = 0
    /\ pc' = "loop"
    /\ UNCHANGED <<state, temp_state, transactions, validate_transactions, rollup, cs,
                   circuit, mode, result, fee_args, validate_tx, single_cs>>

\* One iteration of the loop on the witnesses w of that iteration.
Iterate(w) ==
    /\ cs' = cs \o LoopBody(prev_root, w)
    /\ validate_tx' = Append(validate_tx, ValidateTx(w))
    /\ single_cs' = Append(single_cs, Synthesize(SingleRollup(w), 1))
    /\ rollup' = [rollup EXCEPT !.pre_tx_roots = Append(@, w.pre_tx_root),
                                !.post_tx_roots = Append(@, w.post_tx_root)]
    /\ prev_root' = w.post_tx_root
    /\ iter' = iter + 1

\* An iteration whose witnesses are a step replayed on any ledger state,
\* whether or not that state is the one the previous step ended in.
IterateSpliced ==
    /\ pc = "loop"
    /\ iter < NUM_TX
    /\ \E st \in LedgerStates, tx \in RegisteredTxs : Iterate(BuilderStep(st, tx))
    /\ UNCHANGED <<pc, state, temp_state, transactions, validate_transactions, circuit, mode, result, fee_args>>

\* After the loop: prev_root must equal final_root.
Finish ==
    /\ pc = "loop"
    /\ iter = NUM_TX
    /\ cs' = cs \o FinalConstraint(prev_root, rollup.final_root)
    /\ pc' = "done"
    /\ UNCHANGED <<state, temp_state, transactions, validate_transactions, rollup,
                   prev_root, iter, circuit, mode, result, fee_args, validate_tx, single_cs>>

NextChain == AllocateInputs \/ IterateSpliced \/ Finish

SpecChain == InitChain /\ [][NextChain]_vars

AllValidated == \A i \in 1..NUM_TX : validate_tx[i]

\* C3: the system is satisfied only if initial_root = pre_tx_root_0, every
\* post_tx_root_i = pre_tx_root_{i+1}, post_tx_root_{N-1} = final_root and
\* every validate_tx_i is TRUE; a witness with a broken link is unsatisfied
\* even when every transaction relation holds.
C3_BatchChaining ==
    pc = "done" =>
        /\ IsSatisfied(cs) => (RootChain(rollup) /\ AllValidated)
        /\ (AllValidated /\ ~RootChain(rollup)) => ~IsSatisfied(cs)

\* Every transaction relation holds, the ends match the public inputs, and
\* the only broken link is between the two steps.
C3_Witness ==
    /\ pc = "done"
    /\ AllValidated
    /\ rollup.pre_tx_roots[1] = rollup.initial_root
    /\ rollup.post_tx_roots[NUM_TX] = rollup.final_root
    /\ rollup.post_tx_roots[1] # rollup.pre_tx_roots[2]
    /\ ~IsSatisfied(cs)

\* C10: Rollup<N> is satisfied iff the N Rollup<1> instances built from its
\* steps, with public inputs (pre_tx_root_i, post_tx_root_i), are all
\* satisfied and their roots are linked from initial_root to final_root.
C10_StepComposition ==
    pc = "done" =>
        (IsSatisfied(cs) <=>
            /\ \A i \in 1..NUM_TX : IsSatisfied(single_cs[i])
            /\ RootChain(rollup))

\* A satisfied batch in which both steps moved the root.
C10_Witness ==
    /\ pc = "done"
    /\ IsSatisfied(cs)
    /\ rollup.pre_tx_roots[1] # rollup.post_tx_roots[1]
    /\ rollup.pre_tx_roots[2] # rollup.post_tx_roots[2]

\* ------------------------------ the rollup circuit against a free prover

\* Every account record a leaf can hold.
Infos ==
    {BlankInfo} \cup {[public_key |-> k, balance |-> b] : k \in SecretKeys, b \in Amounts}

\* Roots of every tree over those records.
InfoRoots ==
    {TreeRoot([j \in 1..Capacity |-> ToBytesLe(t[j])]) : t \in [1..Capacity -> Infos]}

InfoBytesOf(tree) == [j \in 1..Capacity |-> ToBytesLe(tree[j])]

\* The witnesses a prover presents for tx when it writes the updated sender
\* record at index js and the updated recipient record at index jr of its
\* own tree, and generates the post paths at those indices. With
\* js = tx.sender and jr = tx.recipient this is the honest update.
RelocatedStep(tree, tx, js, jr) ==
    LET sender_info == tree[tx.sender + 1]
        recipient_info == tree[tx.recipient + 1]
        post_sender == [sender_info EXCEPT !.balance = @ - tx.amount]
        post_recipient == [recipient_info EXCEPT !.balance = @ + tx.amount]
        post_tree == [[tree EXCEPT ![js + 1] = post_sender] EXCEPT ![jr + 1] = post_recipient]
    IN  [tree |-> post_tree,
         w |-> [tx |-> tx,
                sender_acc_info |-> sender_info,
                sender_pre_path |-> GenerateProof(InfoBytesOf(tree), tx.sender),
                sender_post_path |-> GenerateProof(InfoBytesOf(post_tree), js),
                recipient_acc_info |-> recipient_info,
                recipient_pre_path |-> GenerateProof(InfoBytesOf(tree), tx.recipient),
                recipient_post_path |-> GenerateProof(InfoBytesOf(post_tree), jr),
                pre_tx_root |-> TreeRoot(InfoBytesOf(tree)),
                post_tx_root |-> TreeRoot(InfoBytesOf(post_tree))]]

\* The public inputs are the root of a ledger and any root; the prover
\* starts from the ledger's tree.
InitForge ==
    /\ pc = "inputs"
    /\ state \in LedgerStates
    /\ temp_state = state
    /\ \E final_root \in InfoRoots : rollup = EmptyRollup(StateRoot(state), final_root)
    /\ transactions = <<>>
    /\ validate_transactions = FALSE
    /\ cs = <<>>
    /\ prev_root = NoDigest
    /\ iter = 0
    /\ circuit = NoCircuit
    /\ validate_tx = <<>>
    /\ single_cs = <<>>
    /\ mode = "Prove"
    /\ result = "Pending"
    /\ fee_args = NoFeeArgs

\* The transactions registered accounts sign with their own keys.
SignedTxs ==
    {CreateTx(s, r, a, PublicKeyOf(s)) : s \in AccountIds, r \in AccountIds, a \in Amounts}

\* An iteration whose witnesses the prover derives from its own tree for
\* a properly signed transaction, writing the post records at indices of
\* its choosing.
IterateForged ==
    /\ pc = "loop"
    /\ iter < NUM_TX
    /\ \E tx \in SignedTxs, js \in 0..(Capacity - 1), jr \in 0..(Capacity - 1) :
          LET step == RelocatedStep(temp_state.account_merkle_tree, tx, js, jr)
          IN  /\ Iterate(step.w)
              /\ temp_state' = [temp_state EXCEPT !.account_merkle_tree = step.tree]
              /\ transactions' = Append(transactions, tx)
    /\ UNCHANGED <<pc, state, validate_transactions, circuit, mode, result, fee_args>>

NextForge == AllocateInputs \/ IterateForged \/ Finish

SpecForge == InitForge /\ [][NextForge]_vars

\* Roots of the states n natively applied transactions lead to from st.
RECURSIVE NativeReach(_, _)
NativeReach(st, n) ==
    IF n = 0 THEN {StateRoot(st)}
    ELSE UNION {NativeReach(ApplyTransaction(st, tx).state, n - 1) :
                   tx \in {t \in Txs : ApplyTransaction(st, t).ok}}

\* The leaf digest at an index of the tree a root commits to.
RECURSIVE LeafDigestAt(_, _, _)
LeafDigestAt(digest, index, height) ==
    IF height = 0 THEN digest
    ELSE LeafDigestAt(digest[IndexBit(index, height - 1) + 1], index, height - 1)

\* C1 as claimed: a satisfied system has final_root among the roots that N
\* natively applied signed transactions reach from the state rooted at
\* initial_root, and in every step only the sender's and the recipient's
\* leaf differ between pre_tx_root_i and post_tx_root_i.
C1_RollupSound ==
    (pc = "done" /\ IsSatisfied(cs)) =>
        /\ rollup.final_root \in NativeReach(state, NUM_TX)
        /\ \A i \in 1..NUM_TX : \A j \in 0..(Capacity - 1) :
              j \notin {transactions[i].sender, transactions[i].recipient} =>
                  LeafDigestAt(rollup.pre_tx_roots[i], j, TreeHeight)
                      = LeafDigestAt(rollup.post_tx_roots[i], j, TreeHeight)

\* ------------------------------------- rejected batches and batch order

\* C13 as claimed: whenever the builder returns no witness, the State passed
\* in is exactly as it was before the call; no prefix of the batch stays
\* applied.
C13_NoPartialEffect ==
    pc = "rejected" => temp_state = state

\* Every transaction of the batch is applied successfully to the state its
\* predecessors produce in array order.
ValidInOrder(txs, st) ==
    \A k \in 1..Len(txs) : ApplyTransaction(StateBefore(txs, st, k), txs[k]).ok

\* C14 as claimed: under validation the builder returns a witness for every
\* batch whose transactions are each natively valid against the state their
\* predecessors produce, including a batch in which a later transaction
\* spends what its sender received earlier in the batch.
C14_ValidationFollowsOrder ==
    (pc # "start" /\ validate_transactions /\ ValidInOrder(transactions, state))
        => Returned

\* ------------------------------------------------------ absent witnesses

\* An Option field holding None; a present root or vector is never empty.
None == <<>>

\* Rollup::new_empty: every Option field is None.
NewEmpty == EmptyRollup(None, None)

\* The Option fields of the struct in the order generate_constraints
\* allocates them.
RequiredFields ==
    << "initial_root", "final_root", "transactions", "sender_pre_tx_info_and_paths",
       "sender_post_paths", "recv_pre_tx_info_and_paths", "recv_post_paths",
       "pre_tx_roots", "post_tx_roots" >>

WitnessFields == {RequiredFields[k] : k \in 3..Len(RequiredFields)}

\* The modes of a constraint system: Prove assigns values, Setup only
\* synthesises the constraint shape.
Modes == {"Prove", "Setup"}

\* An allocator runs the value closure it is given only when the
\* constraint system assigns values.
EvaluatesValue(m) == m = "Prove"

\* Faulty variant: an absent value is allocated as if it were present.
AllocOutcomeDefaults(value, m) == "Ok"

\* new_input / new_witness with the closure value.ok_or(AssignmentMissing),
\* followed by `?`.
AllocOutcome(value, m) ==
    IF EvaluatesValue(m) /\ value = None THEN "AssignmentMissing" ELSE "Ok"

\* The allocations from the k-th on, stopping at the first error. Every
\* field is allocated in iteration 0 before any constraint is enforced.
RECURSIVE AllocateFrom(_, _, _)
AllocateFrom(r, m, k) ==
    IF k > Len(RequiredFields) THEN "Ok"
    ELSE IF AllocOutcome(r[RequiredFields[k]], m) = "Ok"
         THEN AllocateFrom(r, m, k + 1)
         ELSE AllocOutcome(r[RequiredFields[k]], m)

\* The struct r with only the fields in present kept.
WithOnly(r, present) ==
    [f \in DOMAIN r |-> IF f \in present THEN r[f] ELSE None]

\* Witnesses the builder returns for a transaction repeated NUM_TX times.
BaseWitnesses ==
    {res.rollup : res \in {x \in {WithStateAndTransactions([i \in 1..NUM_TX |-> tx], st, FALSE) :
                                      st \in LedgerStates, tx \in SignedTxs} : x.some}}

\* A Rollup struct with any of its Option fields absent, and a constraint
\* system in either mode.
InitAbsent ==
    /\ pc = "circuit"
    /\ \E w \in BaseWitnesses, present \in SUBSET {RequiredFields[k] : k \in 1..Len(RequiredFields)} :
          rollup = WithOnly(w, present)
    /\ mode \in Modes
    /\ result = "Pending"
    /\ fee_args = NoFeeArgs
    /\ state = MkState([id \in AccountIds |-> 0])
    /\ temp_state = state
    /\ transactions = <<>>
    /\ validate_transactions = FALSE
    /\ cs = <<>>
    /\ prev_root = NoDigest
    /\ iter = 0
    /\ circuit = NoCircuit
    /\ validate_tx = <<>>
    /\ single_cs = <<>>

\* generate_constraints on a struct whose fields may be absent: the first
\* failing allocation returns its error; constraint outcomes exist only
\* when every allocation succeeded on a present value that was assigned.
GenerateConstraintsAbsent ==
    /\ pc = "circuit"
    /\ LET outcome == AllocateFrom(rollup, mode, 1)
       IN  /\ result' = outcome
           /\ cs' = IF /\ outcome = "Ok"
                       /\ EvaluatesValue(mode)
                       /\ \A k \in 1..Len(RequiredFields) : rollup[RequiredFields[k]] # None
                    THEN Synthesize(rollup, NUM_TX)
                    ELSE <<>>
    /\ pc' = "returned"
    /\ UNCHANGED <<state, temp_state, transactions, validate_transactions, rollup,
                   prev_root, iter, circuit, validate_tx, single_cs, mode, fee_args>>

NextAbsent == GenerateConstraintsAbsent

SpecAbsent == InitAbsent /\ [][NextAbsent]_vars

SomeFieldAbsent(r) == \E k \in 1..Len(RequiredFields) : r[RequiredFields[k]] = None

AllWitnessesAbsent(r) == \A f \in WitnessFields : r[f] = None

\* The caller unwraps the result before asking is_satisfied.
ReportsSatisfied == result = "Ok" /\ IsSatisfied(cs)

ValidateWithFeeKeepsFee(a) ==
    LET post_sender == [a.pre_sender_acc_info EXCEPT !.balance = @ - a.tx.amount]
        post_recipient == [a.pre_recipient_acc_info EXCEPT !.balance = @ + a.tx.amount]
        post_fee == [a.pre_fee_acc_info EXCEPT !.balance = @ + a.fee]
    IN  /\ VerifySignature(a.tx, a.pre_sender_acc_info.public_key)
        /\ CheckedSubFits(a.pre_sender_acc_info.balance, a.tx.amount)
        /\ CheckedAddFits(a.pre_recipient_acc_info.balance, a.tx.amount)
        /\ CheckedAddFits(a.pre_fee_acc_info.balance, a.fee)
        /\ VerifyMembership(a.pre_sender_path, a.pre_root, ToBytesLe(a.pre_sender_acc_info))
        /\ VerifyMembership(a.pre_recipient_path, a.pre_root, ToBytesLe(a.pre_recipient_acc_info))
        /\ VerifyMembership(a.pre_fee_path, a.pre_root, ToBytesLe(a.pre_fee_acc_info))
        /\ VerifyMembership(a.post_sender_path, a.post_root, ToBytesLe(post_sender))
        /\ VerifyMembership(a.post_recipient_path, a.post_root, ToBytesLe(post_recipient))
        /\ VerifyMembership(a.post_fee_path, a.post_root, ToBytesLe(post_fee))

\* TransactionWithFeeVar::validate_with_fee: the signature under the
\* sender's pre-state key; the sender's balance minus amount, then minus
\* fee, the recipient's plus amount and the collector's plus fee, each
\* range-checked; three memberships under pre_root and three under
\* post_root; the conjunction of all.
ValidateWithFee(a) ==
    LET sig_ok == VerifySignature(a.tx, a.pre_sender_acc_info.public_key)
        after_amt == a.pre_sender_acc_info.balance - a.tx.amount
        post_sender == [a.pre_sender_acc_info EXCEPT !.balance = after_amt - a.fee]
        post_recipient == [a.pre_recipient_acc_info EXCEPT !.balance = @ + a.tx.amount]
        post_fee == [a.pre_fee_acc_info EXCEPT !.balance = @ + a.fee]
        in_range ==
            /\ CheckedSubFits(a.pre_sender_acc_info.balance, a.tx.amount)
            /\ CheckedSubFits(after_amt, a.fee)
            /\ CheckedAddFits(a.pre_recipient_acc_info.balance, a.tx.amount)
            /\ CheckedAddFits(a.pre_fee_acc_info.balance, a.fee)
        sender_exists ==
            VerifyMembership(a.pre_sender_path, a.pre_root, ToBytesLe(a.pre_sender_acc_info))
        recipient_exists ==
            VerifyMembership(a.pre_recipient_path, a.pre_root, ToBytesLe(a.pre_recipient_acc_info))
        fee_exists ==
            VerifyMembership(a.pre_fee_path, a.pre_root, ToBytesLe(a.pre_fee_acc_info))
        sender_updated ==
            VerifyMembership(a.post_sender_path, a.post_root, ToBytesLe(post_sender))
        recipient_updated ==
            VerifyMembership(a.post_recipient_path, a.post_root, ToBytesLe(post_recipient))
        fee_updated ==
            VerifyMembership(a.post_fee_path, a.post_root, ToBytesLe(post_fee))
    IN  /\ in_range
        /\ sender_exists /\ sender_updated
        /\ recipient_exists /\ recipient_updated
        /\ fee_exists /\ fee_updated
        /\ sig_ok

\* The arguments a caller assembles: pre-infos and pre-paths read from the
\* state held, post-paths from the state claimed to follow, at the ids of
\* the sender, the recipient and the fee collector.
FeeArgsOf(held, pre, post, tx, fee, collector) ==
    [tx |-> tx,
     fee |-> fee,
     pre_sender_acc_info |-> held.id_to_account_info[tx.sender],
     pre_sender_path |-> StateProof(held, tx.sender),
     post_sender_path |-> StateProof(post, tx.sender),
     pre_recipient_acc_info |-> held.id_to_account_info[tx.recipient],
     pre_recipient_path |-> StateProof(held, tx.recipient),
     post_recipient_path |-> StateProof(post, tx.recipient),
     pre_fee_acc_info |-> held.id_to_account_info[collector],
     pre_fee_path |-> StateProof(held, collector),
     post_fee_path |-> StateProof(post, collector),
     pre_root |-> StateRoot(pre),
     post_root |-> StateRoot(post)]

\* Any transaction between registered accounts, any fee and collector, any
\* claimed post state; pre_root is the root of the state held or not.
InitFee ==
    /\ pc = "fee_start"
    /\ \E held \in States, post \in States, tx \in RegisteredTxs, fee \in Amounts,
          collector \in AccountIds :
          \E pre \in {held, post} :
              fee_args = FeeArgsOf(held, pre, post, tx, fee, collector)
    /\ state = MkState([id \in AccountIds |-> 0])
    /\ temp_state = state
    /\ transactions = <<>>
    /\ validate_transactions = FALSE
    /\ rollup = EmptyRollup(NoDigest, NoDigest)
    /\ cs = <<>>
    /\ prev_root = NoDigest
    /\ iter = 0
    /\ circuit = NoCircuit
    /\ validate_tx = <<>>
    /\ single_cs = <<>>
    /\ mode = "Prove"
    /\ result = "Pending"

\* One call of validate_with_fee; the Boolean it returns is recorded.
ValidateWithFeeCall ==
    /\ pc = "fee_start"
    /\ validate_tx' = <<ValidateWithFee(fee_args)>>
    /\ pc' = "fee_done"
    /\ UNCHANGED <<state, temp_state, transactions, validate_transactions, rollup, cs,
                   prev_root, iter, circuit, single_cs, mode, result, fee_args>>

NextFee == ValidateWithFeeCall

SpecFee == InitFee /\ [][NextFee]_vars

\* The post-infos the relation speaks of: balances moved by amount and
\* fee, public keys unchanged.
PostInfosWithFee(a) ==
    [sender |-> [a.pre_sender_acc_info EXCEPT !.balance = @ - a.tx.amount - a.fee],
     recipient |-> [a.pre_recipient_acc_info EXCEPT !.balance = @ + a.tx.amount],
     collector |-> [a.pre_fee_acc_info EXCEPT !.balance = @ + a.fee]]

====
